---- MODULE Spec2Model ----
(***************************************************************************)
(* Model of ansible/scripts/disk_monitoring_lambda.py: the disk monitoring *)
(* collector (DiskMonitoringCollector) and its Lambda entry point.         *)
(*                                                                         *)
(* Percentages are held in tenths of a percent (850 is 85.0%), so that     *)
(* readings between two integer thresholds are represented.                *)
(***************************************************************************)
EXTENDS Integers, Sequences, FiniteSets, TLC

VARIABLES
    pc,               \* position of lambda_handler / run
    env,              \* os.environ['MONITORED_ACCOUNTS'] after split(',')
    CONFIG,           \* which notification channels are configured
    current_account,  \* self.current_account
    accounts,         \* local `accounts` of run
    idx,              \* position of the for loop of run (1-based)
    aggregated_data,  \* self.aggregated_data (dict account id -> record)
    alerts,           \* self.alerts
    pending,          \* alerts of the current account not yet sent (line 292)
    sent,             \* send_alert calls so far, in call order: alert and result
    lastSend,         \* <<>> or <<outcome of the last send_alert call>>
    last,             \* outcome of the last external call
    collectCalls,     \* number of collect_metrics_from_account calls
    puts,             \* payloads handed to put_metric_data, in call order
    produced,         \* sum of instance_count over every record produced
    visited,          \* number of list positions the loop has taken up
    response          \* <<>> or <<what lambda_handler returned>>

vars == <<pc, env, CONFIG, current_account, accounts, idx, aggregated_data,
          alerts, pending, sent, lastSend, last, collectCalls, puts,
          produced, visited, response>>

(* ------------------------------ bounds -------------------------------- *)

MaxAccounts == 2
MaxDatapoints == 2

(* ------------------------- program constants -------------------------- *)

alert_threshold_warning == 80
alert_threshold_critical == 90
alert_threshold_emergency == 95

\* A whole percentage in tenths of a percent.
Pct(n) == n * 10

(* ----------------------------- helpers -------------------------------- *)

RECURSIVE SumInstanceCounts(_, _)
\* sum(acc['instance_count'] for acc in d.values()), over the keys in ks
SumInstanceCounts(d, ks) ==
    IF ks = {} THEN 0
    ELSE LET k == CHOOSE x \in ks : TRUE
         IN  d[k].instance_count + SumInstanceCounts(d, ks \ {k})

RECURSIVE FilterNonEmpty(_)
FilterNonEmpty(s) ==
    IF s = <<>> THEN <<>>
    ELSE IF Head(s) = "" THEN FilterNonEmpty(Tail(s))
         ELSE <<Head(s)>> \o FilterNonEmpty(Tail(s))

\* str.strip() on the tokens the model draws
Strip(tok) ==
    CASE tok = " "      -> ""
      [] tok = " 222 "  -> "222"
      [] OTHER          -> tok

\* The tokens of MONITORED_ACCOUNTS between commas.
RawTokens == {"111", " 222 ", " "}

\* Accounts sts.get_caller_identity may report: a monitored one, or another.
CallerAccounts == {"111", "999"}

(* --------------------------- input universe --------------------------- *)

Dim(n, v) == [Name |-> n, Value |-> v]

\* Dimension lists of a datapoint: the instance dimension first (the order
\* of the query, lines 86-89), or no instance dimension at all.
DimLists ==
    { <<Dim("InstanceId", "i-1"), Dim("Filesystem", "/")>>,
      <<Dim("InstanceId", "i-2"), Dim("Filesystem", "/")>>,
      <<Dim("Filesystem", "/")>> }

\* Averages in tenths of a percent: every multiple of 5% from 75% up, with
\* the readings one tenth below and above it, and 0.
AvgValues ==
    {0} \cup { v \in 749..1000 : v % 50 \in {0, 1, 49} }

\* A datapoint; Average is <<>> when the key is absent, else <<value>>.
Datapoint(dims, avg) ==
    [Dimensions |-> dims, Average |-> avg, Timestamp |-> "T1"]

Datapoints ==
    { Datapoint(d, a) : d \in DimLists,
                        a \in {<<>>} \cup { <<v>> : v \in AvgValues } }

SeqsUpTo(S, n) == UNION { [1..k -> S] : k \in 0..n }

\* What get_metric_statistics answers in the pipeline specification: the
\* call raises, or it returns one of these datapoint lists.
RunDatapointLists ==
    { <<>>,
      << Datapoint(<<Dim("InstanceId", "i-1"), Dim("Filesystem", "/")>>, <<500>>) >>,
      << Datapoint(<<Dim("InstanceId", "i-1"), Dim("Filesystem", "/")>>, <<850>>),
         Datapoint(<<Dim("InstanceId", "i-2"), Dim("Filesystem", "/")>>, <<970>>) >>,
      << Datapoint(<<Dim("InstanceId", "i-1"), Dim("Filesystem", "/")>>, <<925>>),
         Datapoint(<<Dim("InstanceId", "i-1"), Dim("Filesystem", "/")>>, <<600>>) >>,
      << Datapoint(<<Dim("Filesystem", "/")>>, <<800>>) >> }

ApiResponses ==
    { [raised |-> TRUE, Datapoints |-> <<>>] }
    \cup { [raised |-> FALSE, Datapoints |-> d] : d \in RunDatapointLists }

Configs ==
    [sns_topic_arn : BOOLEAN, slack_webhook_url : BOOLEAN,
     pagerduty_api_key : BOOLEAN]

\* Whether each channel's call goes through (TRUE) or raises (FALSE).
ChannelOutcomes == [sns : BOOLEAN, slack : BOOLEAN, pagerduty : BOOLEAN]

(* --------------------------- pure functions --------------------------- *)

\* get_aws_accounts: split on commas, strip, drop the empty tokens.
get_aws_accounts(tokens) ==
    FilterNonEmpty([i \in 1..Len(tokens) |-> Strip(tokens[i])])

\* collect_metrics_from_account, given what the telemetry query answered.
collect_metrics_from_account(account_id, resp) ==
    IF resp.raised
    THEN [account_id |-> account_id, timestamp |-> "now",
          error |-> <<"api error">>, metrics |-> <<>>, instance_count |-> 0]
    ELSE [account_id |-> account_id, timestamp |-> "now",
          error |-> <<>>, metrics |-> resp.Datapoints,
          instance_count |->
              Cardinality({ resp.Datapoints[i].Dimensions[1].Value :
                            i \in 1..Len(resp.Datapoints) })]

\* datapoint.get('Average', 0)
AverageOf(dp) == IF dp.Average = <<>> THEN 0 ELSE dp.Average[1]

\* next((dim['Value'] for dim in ... if dim['Name'] == 'InstanceId'), 'Unknown')
InstanceIdOf(dp) ==
    LET hits == { i \in 1..Len(dp.Dimensions) :
                  dp.Dimensions[i].Name = "InstanceId" }
    IN  IF hits = {} THEN "Unknown"
        ELSE dp.Dimensions[CHOOSE i \in hits : \A j \in hits : i <= j].Value

\* Mutant of Classify: strict comparisons, so a reading exactly at a
\* threshold falls to the level below.
Classify_Strict(avg_usage) ==
    IF avg_usage > Pct(alert_threshold_emergency) THEN "EMERGENCY"
    ELSE IF avg_usage > Pct(alert_threshold_critical) THEN "CRITICAL"
    ELSE IF avg_usage > Pct(alert_threshold_warning) THEN "WARNING"
    ELSE "NONE"

\* The if/elif chain of analyze_metrics: the level, or "NONE" (continue).
Classify(avg_usage) ==
    IF avg_usage >= Pct(alert_threshold_emergency) THEN "EMERGENCY"
    ELSE IF avg_usage >= Pct(alert_threshold_critical) THEN "CRITICAL"
    ELSE IF avg_usage >= Pct(alert_threshold_warning) THEN "WARNING"
    ELSE "NONE"

PriorityOf(alert_level) ==
    IF alert_level \in {"EMERGENCY", "CRITICAL"} THEN "high" ELSE "medium"

\* CONFIG[f'alert_threshold_{alert_level.lower()}']
ThresholdOf(alert_level) ==
    CASE alert_level = "EMERGENCY" -> alert_threshold_emergency
      [] alert_level = "CRITICAL"  -> alert_threshold_critical
      [] OTHER                     -> alert_threshold_warning

\* datetime.isoformat()
IsoFormat(ts) == <<"iso8601", ts>>

MakeAlert(account_id, dp) ==
    [account_id |-> account_id,
     instance_id |-> InstanceIdOf(dp),
     alert_level |-> Classify(AverageOf(dp)),
     priority |-> PriorityOf(Classify(AverageOf(dp))),
     disk_usage |-> AverageOf(dp),
     timestamp |-> IsoFormat(dp.Timestamp),
     threshold |-> ThresholdOf(Classify(AverageOf(dp)))]

RECURSIVE AnalyzeSeq(_, _)
AnalyzeSeq(account_id, metrics) ==
    IF metrics = <<>> THEN <<>>
    ELSE IF Classify(AverageOf(Head(metrics))) = "NONE"
         THEN AnalyzeSeq(account_id, Tail(metrics))
         ELSE <<MakeAlert(account_id, Head(metrics))>>
              \o AnalyzeSeq(account_id, Tail(metrics))

analyze_metrics(account_data) ==
    AnalyzeSeq(account_data.account_id, account_data.metrics)

\* format_alert_message: the fields the message text carries; the usage is
\* written with one decimal, which is the tenths held here.
format_alert_message(alert) ==
    [level |-> alert.alert_level, account |-> alert.account_id,
     instance |-> alert.instance_id, usage_1f |-> alert.disk_usage,
     threshold |-> alert.threshold, time |-> alert.timestamp]

\* One channel of send_alert: "unreached" when an earlier statement of the
\* try block raised, "skipped" when its condition is false, else the call's
\* outcome.
Channel(reached, wanted, ok) ==
    IF ~reached THEN "unreached"
    ELSE IF ~wanted THEN "skipped"
    ELSE IF ok THEN "sent" ELSE "raised"

\* send_alert: the single try block of lines 152-176, statement by statement.
send_alert(alert, cfg, out) ==
    LET message == format_alert_message(alert)
        sns     == Channel(TRUE, cfg.sns_topic_arn, out.sns)
        slack   == Channel(sns # "raised", cfg.slack_webhook_url, out.slack)
        pd      == Channel(sns # "raised" /\ slack # "raised",
                           cfg.pagerduty_api_key /\ alert.priority = "high",
                           out.pagerduty)
    IN  [alert |-> alert, message |-> message,
         sns |-> sns, slack |-> slack, pagerduty |-> pd,
         ret |-> (sns # "raised" /\ slack # "raised" /\ pd # "raised")]

\* The MetricData of store_aggregated_data.
MetricData(data, all_alerts) ==
    [TotalInstancesMonitored |-> SumInstanceCounts(data, DOMAIN data),
     TotalAlertsGenerated |-> Len(all_alerts),
     AccountsMonitored |-> Cardinality(DOMAIN data)]

\* The summary run returns.
Summary(data, all_alerts) ==
    [accounts_monitored |-> Cardinality(DOMAIN data),
     total_instances |-> SumInstanceCounts(data, DOMAIN data),
     total_alerts |-> Len(all_alerts),
     timestamp |-> "now",
     status |-> "success"]

\* self.aggregated_data[account_id] = account_data
DictSet(d, k, v) ==
    [x \in DOMAIN d \cup {k} |-> IF x = k THEN v ELSE d[x]]

(* ------------------------ the pipeline: Spec -------------------------- *)

Init ==
    /\ pc = "start"
    /\ env \in { t \in SeqsUpTo(RawTokens, MaxAccounts) : Len(t) >= 1 }
    /\ CONFIG \in Configs
    /\ current_account = ""
    /\ accounts = <<>>
    /\ idx = 1
    /\ aggregated_data = <<>>
    /\ alerts = <<>>
    /\ pending = <<>>
    /\ sent = <<>>
    /\ lastSend = <<>>
    /\ last = "none"
    /\ collectCalls = 0
    /\ puts = <<>>
    /\ produced = 0
    /\ visited = 0
    /\ response = <<>>

\* lambda_handler's except branch (lines 319-324).
ErrorResponse == <<[statusCode |-> 500, body |-> [error |-> "exception"]]>>

\* Mutant of Construct: the collector is built outside the try block (as
\* the __main__ block does), so its exception leaves no response.
Construct_OutsideTry ==
    /\ pc = "start"
    /\ \/ /\ current_account' \in CallerAccounts
          /\ last' = "construct_ok"
          /\ pc' = "run"
       \/ /\ last' = "construct_raised"
          /\ pc' = "done"
          /\ UNCHANGED current_account
    /\ UNCHANGED <<env, CONFIG, accounts, idx, aggregated_data, alerts,
                   pending, sent, lastSend, collectCalls, puts, produced,
                   visited, response>>

\* DiskMonitoringCollector.__init__: sts.get_caller_identity answers, or
\* raises into lambda_handler's except branch.
Construct ==
    /\ pc = "start"
    /\ \/ /\ current_account' \in CallerAccounts
          /\ last' = "construct_ok"
          /\ pc' = "run"
          /\ UNCHANGED response
       \/ /\ last' = "construct_raised"
          /\ pc' = "done"
          /\ response' = ErrorResponse
          /\ UNCHANGED current_account
    /\ UNCHANGED <<env, CONFIG, accounts, idx, aggregated_data, alerts,
                   pending, sent, lastSend, collectCalls, puts, produced,
                   visited>>

\* run, lines 266-270: read the account list.
RunStart ==
    /\ pc = "run"
    /\ accounts' = get_aws_accounts(env)
    /\ idx' = 1
    /\ pc' = "loop"
    /\ last' = "accounts_read"
    /\ UNCHANGED <<env, CONFIG, current_account, aggregated_data, alerts,
                   pending, sent, lastSend, collectCalls, puts, produced,
                   visited, response>>

\* Mutant of AcquireSession: the `if not session: continue` is missing, so
\* a failed assume_role falls through to the collection.
AcquireSession_NoSkip ==
    /\ pc = "loop"
    /\ idx <= Len(accounts)
    /\ visited' = visited + 1
    /\ IF accounts[idx] = current_account
       THEN \/ /\ last' = "session_local"
               /\ pc' = "collect"
               /\ UNCHANGED <<idx, response>>
            \/ /\ last' = "session_raised"
               /\ pc' = "done"
               /\ response' = ErrorResponse
               /\ UNCHANGED idx
       ELSE \/ /\ last' = "assume_ok"
               /\ pc' = "collect"
               /\ UNCHANGED <<idx, response>>
            \/ /\ last' = "assume_failed"
               /\ pc' = "collect"
               /\ UNCHANGED <<idx, response>>
    /\ UNCHANGED <<env, CONFIG, current_account, accounts, aggregated_data,
                   alerts, pending, sent, lastSend, collectCalls, puts,
                   produced>>

\* run, lines 273-281: the session of the account at idx. The local
\* account's boto3.Session() stands outside every try block; assume_role
\* answers None on any failure and the loop continues.
AcquireSession ==
    /\ pc = "loop"
    /\ idx <= Len(accounts)
    /\ visited' = visited + 1
    /\ IF accounts[idx] = current_account
       THEN \/ /\ last' = "session_local"
               /\ pc' = "collect"
               /\ UNCHANGED <<idx, response>>
            \/ /\ last' = "session_raised"
               /\ pc' = "done"
               /\ response' = ErrorResponse
               /\ UNCHANGED idx
       ELSE \/ /\ last' = "assume_ok"
               /\ pc' = "collect"
               /\ UNCHANGED <<idx, response>>
            \/ /\ last' = "assume_failed"
               /\ pc' = "loop"
               /\ idx' = idx + 1
               /\ UNCHANGED response
    /\ UNCHANGED <<env, CONFIG, current_account, accounts, aggregated_data,
                   alerts, pending, sent, lastSend, collectCalls, puts,
                   produced>>

\* Mutant of Collect: a failed collection is skipped like a failed
\* credential exchange, and its record is not stored.
Collect_SkipsFailed ==
    /\ pc = "collect"
    /\ \E resp \in ApiResponses :
         LET account_id   == accounts[idx]
             account_data == collect_metrics_from_account(account_id, resp)
             new_alerts   == analyze_metrics(account_data)
         IN  /\ aggregated_data' =
                    IF resp.raised THEN aggregated_data
                    ELSE DictSet(aggregated_data, account_id, account_data)
             /\ alerts' = alerts \o new_alerts
             /\ pending' = new_alerts
             /\ produced' = produced + account_data.instance_count
             /\ last' = IF resp.raised THEN "collect_failed" ELSE "collect_ok"
             /\ IF new_alerts = <<>>
                THEN pc' = "loop" /\ idx' = idx + 1
                ELSE pc' = "send" /\ idx' = idx
    /\ collectCalls' = collectCalls + 1
    /\ UNCHANGED <<env, CONFIG, current_account, accounts, sent, lastSend,
                   puts, visited, response>>

\* run, lines 284-289: collect, store the record, analyze, extend the
\* alert list; the for loop of line 292 then starts on the new alerts.
Collect ==
    /\ pc = "collect"
    /\ \E resp \in ApiResponses :
         LET account_id   == accounts[idx]
             account_data == collect_metrics_from_account(account_id, resp)
             new_alerts   == analyze_metrics(account_data)
         IN  /\ aggregated_data' = DictSet(aggregated_data, account_id, account_data)
             /\ alerts' = alerts \o new_alerts
             /\ pending' = new_alerts
             /\ produced' = produced + account_data.instance_count
             /\ last' = IF resp.raised THEN "collect_failed" ELSE "collect_ok"
             /\ IF new_alerts = <<>>
                THEN pc' = "loop" /\ idx' = idx + 1
                ELSE pc' = "send" /\ idx' = idx
    /\ collectCalls' = collectCalls + 1
    /\ UNCHANGED <<env, CONFIG, current_account, accounts, sent, lastSend,
                   puts, visited, response>>

\* Mutant of SendAlert: the loop of line 292 stops at the first send that
\* reports failure.
SendAlert_StopsOnFailure ==
    /\ pc = "send"
    /\ pending # <<>>
    /\ \E out \in ChannelOutcomes :
         LET res  == send_alert(Head(pending), CONFIG, out)
             rest == IF res.ret THEN Tail(pending) ELSE <<>>
         IN  /\ lastSend' = <<res>>
             /\ sent' = Append(sent, [alert |-> Head(pending), ret |-> res.ret])
             /\ pending' = rest
             /\ IF rest = <<>>
                THEN pc' = "loop" /\ idx' = idx + 1
                ELSE pc' = "send" /\ idx' = idx
    /\ last' = "send"
    /\ UNCHANGED <<env, CONFIG, current_account, accounts, aggregated_data,
                   alerts, collectCalls, puts, produced, visited, response>>

\* run, lines 292-293: one send_alert call; its result is discarded.
SendAlert ==
    /\ pc = "send"
    /\ pending # <<>>
    /\ \E out \in ChannelOutcomes :
         LET res == send_alert(Head(pending), CONFIG, out)
         IN  /\ lastSend' = <<res>>
             /\ sent' = Append(sent, [alert |-> Head(pending), ret |-> res.ret])
    /\ pending' = Tail(pending)
    /\ last' = "send"
    /\ IF Tail(pending) = <<>>
       THEN pc' = "loop" /\ idx' = idx + 1
       ELSE pc' = "send" /\ idx' = idx
    /\ UNCHANGED <<env, CONFIG, current_account, accounts, aggregated_data,
                   alerts, collectCalls, puts, produced, visited, response>>

\* Mutant of Store: store_aggregated_data has no try block, so a failing
\* put_metric_data escapes run.
Store_Propagates ==
    /\ pc = "loop"
    /\ idx > Len(accounts)
    /\ puts' = Append(puts, MetricData(aggregated_data, alerts))
    /\ \/ /\ last' = "put_ok"
          /\ pc' = "stored"
          /\ UNCHANGED response
       \/ /\ last' = "put_raised"
          /\ pc' = "done"
          /\ response' = ErrorResponse
    /\ UNCHANGED <<env, CONFIG, current_account, accounts, idx,
                   aggregated_data, alerts, pending, sent, lastSend,
                   collectCalls, produced, visited>>

\* run, line 296: store_aggregated_data after the loop; a failing
\* put_metric_data is caught and logged.
Store ==
    /\ pc = "loop"
    /\ idx > Len(accounts)
    /\ puts' = Append(puts, MetricData(aggregated_data, alerts))
    /\ \/ last' = "put_ok"
       \/ last' = "put_raised"
    /\ pc' = "stored"
    /\ UNCHANGED <<env, CONFIG, current_account, accounts, idx,
                   aggregated_data, alerts, pending, sent, lastSend,
                   collectCalls, produced, visited, response>>

\* run, lines 299-305, and lambda_handler, lines 313-317.
Return ==
    /\ pc = "stored"
    /\ response' = <<[statusCode |-> 200,
                      body |-> Summary(aggregated_data, alerts)]>>
    /\ pc' = "done"
    /\ UNCHANGED <<env, CONFIG, current_account, accounts, idx,
                   aggregated_data, alerts, pending, sent, lastSend, last,
                   collectCalls, puts, produced, visited>>

Next ==
    \/ Construct
    \/ RunStart
    \/ AcquireSession
    \/ Collect
    \/ SendAlert
    \/ Store
    \/ Return

Spec == Init /\ [][Next]_vars

(* ---------------- analyze_metrics alone: SpecAnalyze ------------------ *)

\* One account record holding any datapoint list of the input universe.
InitAnalyze ==
    /\ pc = "analyze"
    /\ \E d \in SeqsUpTo(Datapoints, MaxDatapoints) :
         aggregated_data =
             ("111" :> collect_metrics_from_account(
                           "111", [raised |-> FALSE, Datapoints |-> d]))
    /\ env = <<"111">>
    /\ CONFIG = [sns_topic_arn |-> FALSE, slack_webhook_url |-> FALSE,
                 pagerduty_api_key |-> FALSE]
    /\ current_account = "111"
    /\ accounts = <<"111">>
    /\ idx = 1
    /\ alerts = <<>>
    /\ pending = <<>>
    /\ sent = <<>>
    /\ lastSend = <<>>
    /\ last = "collect_ok"
    /\ collectCalls = 1
    /\ puts = <<>>
    /\ produced = 0
    /\ visited = 1
    /\ response = <<>>

\* alerts = self.analyze_metrics(account_data); self.alerts.extend(alerts)
Analyze ==
    /\ pc = "analyze"
    /\ alerts' = alerts \o analyze_metrics(aggregated_data["111"])
    /\ pc' = "analyzed"
    /\ UNCHANGED <<env, CONFIG, current_account, accounts, idx,
                   aggregated_data, pending, sent, lastSend, last,
                   collectCalls, puts, produced, visited, response>>

NextAnalyze == Analyze

SpecAnalyze == InitAnalyze /\ [][NextAnalyze]_vars

(* ------------------------------ claims -------------------------------- *)

Attempted(ch) == ch \in {"sent", "raised"}

\* run has returned its summary to lambda_handler, or is about to.
RunCompleted ==
    \/ pc = "stored"
    \/ pc = "done" /\ last \in {"put_ok", "put_raised"}

\* Whenever run completes, the loop has taken up every position of the list.
AllAccountsVisited == RunCompleted => visited = Len(accounts)

\* C1: in send_alert a failure of one configured channel does not prevent
\* the remaining configured channels from being attempted: whatever happened
\* to the others, the chat webhook is attempted when configured and the
\* paging channel when configured and the priority is high.
C1_ChannelsIndependent ==
    lastSend # <<>> =>
        LET s == lastSend[1]
        IN  /\ CONFIG.sns_topic_arn => Attempted(s.sns)
            /\ CONFIG.slack_webhook_url => Attempted(s.slack)
            /\ (CONFIG.pagerduty_api_key /\ s.alert.priority = "high")
                   => Attempted(s.pagerduty)

\* C2: under any outcome of the other channels, a paging send is attempted
\* if and only if the alert's priority is "high" and a paging key is
\* configured (so never for a WARNING alert).
C2_PagingIffHighAndConfigured ==
    lastSend # <<>> =>
        LET s == lastSend[1]
        IN  /\ Attempted(s.pagerduty)
                   <=> (s.alert.priority = "high" /\ CONFIG.pagerduty_api_key)
            /\ s.alert.alert_level = "WARNING" => ~Attempted(s.pagerduty)

\* C3: a non-local account whose assume_role fails adds no entry to
\* aggregated_data and no alert, triggers no collection and no notification,
\* and the loop goes on with the next position; a run that completes has
\* taken up every position of the list.
C3_CredentialFailureIsolated ==
    /\ [][ (last' = "assume_failed" /\ visited' = visited + 1) =>
              /\ accounts[idx] # current_account
              /\ aggregated_data' = aggregated_data
              /\ alerts' = alerts
              /\ collectCalls' = collectCalls
              /\ sent' = sent
              /\ pending' = pending /\ pending = <<>>
              /\ produced' = produced
              /\ pc' = "loop"
              /\ idx' = idx + 1 ]_vars
    /\ []AllAccountsVisited

\* Witness of C3: a credential exchange has just failed and a later account
\* of the list is still to be processed.
C3_Witness ==
    /\ last = "assume_failed"
    /\ pc = "loop"
    /\ idx <= Len(accounts)

\* C4: when run returns, total_instances is the sum of the instance counts
\* of the per-account records produced during the run, and total_alerts is
\* the length of the accumulated alert list.
C4_TotalsAreSums ==
    (pc = "done" /\ response # <<>> /\ response[1].statusCode = 200) =>
        /\ response[1].body.total_instances = produced
        /\ response[1].body.total_alerts = Len(alerts)

\* The levels C5 states, with its own numbers, in tenths of a percent.
C5_Level(v) ==
    IF v >= 950 THEN "EMERGENCY"
    ELSE IF 900 <= v /\ v < 950 THEN "CRITICAL"
    ELSE IF 800 <= v /\ v < 900 THEN "WARNING"
    ELSE "NONE"

RECURSIVE C5_Expected(_)
\* <<usage, level>> of every datapoint that C5 says raises an alert, in
\* order; a datapoint without an Average reads as 0.
C5_Expected(metrics) ==
    IF metrics = <<>> THEN <<>>
    ELSE LET v == IF Head(metrics).Average = <<>> THEN 0
                  ELSE Head(metrics).Average[1]
         IN  IF C5_Level(v) = "NONE" THEN C5_Expected(Tail(metrics))
             ELSE << <<v, C5_Level(v)>> >> \o C5_Expected(Tail(metrics))

\* C5: with the thresholds 80/90/95 analyze_metrics classifies an average v
\* as EMERGENCY if v >= 95, CRITICAL if 90 <= v < 95, WARNING if
\* 80 <= v < 90 and raises nothing if v < 80; each datapoint yields at most
\* one alert.
C5_Classification ==
    pc = "analyzed" =>
        LET metrics == aggregated_data["111"].metrics
        IN  /\ Len(alerts) <= Len(metrics)
            /\ [i \in 1..Len(alerts) |->
                   <<alerts[i].disk_usage, alerts[i].alert_level>>]
               = C5_Expected(metrics)

\* Witness of C5: a reading exactly at 80.0 gave a WARNING and a reading
\* just below it, in the same list, gave nothing.
C5_Witness ==
    /\ pc = "analyzed"
    /\ Len(aggregated_data["111"].metrics) = 2
    /\ aggregated_data["111"].metrics[1].Average = <<799>>
    /\ Len(alerts) = 1
    /\ alerts[1].disk_usage = 800
    /\ alerts[1].alert_level = "WARNING"

\* C6: message formatting never raises on an alert of analyze_metrics, so
\* send_alert returns True whatever the delivery outcome of the channels.
C6_ReturnsTrueWhateverDelivery ==
    \A i \in 1..Len(sent) : sent[i].ret = TRUE

\* C7: a failed collection yields a record with the error, no metrics and
\* instance_count 0, which is stored in aggregated_data; the account
\* produces no alert and no notification and the loop goes on with the next
\* position; a run that completes has taken up every position of the list.
C7_CollectionFailureIsolated ==
    /\ [][ (last' = "collect_failed" /\ collectCalls' = collectCalls + 1) =>
              /\ accounts[idx] \in DOMAIN aggregated_data'
              /\ aggregated_data'[accounts[idx]].account_id = accounts[idx]
              /\ aggregated_data'[accounts[idx]].error # <<>>
              /\ aggregated_data'[accounts[idx]].metrics = <<>>
              /\ aggregated_data'[accounts[idx]].instance_count = 0
              /\ alerts' = alerts
              /\ sent' = sent
              /\ pending' = <<>>
              /\ pc' = "loop"
              /\ idx' = idx + 1 ]_vars
    /\ []AllAccountsVisited

\* Witness of C7: a collection has just failed, its error record is stored
\* and a later account of the list is still to be processed.
C7_Witness ==
    /\ last = "collect_failed"
    /\ pc = "loop"
    /\ idx <= Len(accounts)
    /\ aggregated_data[accounts[idx - 1]].error # <<>>

SummaryKeys ==
    {"accounts_monitored", "total_instances", "total_alerts", "timestamp",
     "status"}

\* C8: lambda_handler always ends with a response envelope: 500 with an
\* error string when an exception escaped the construction or run, else 200
\* with the counts, a timestamp and status "success"; before it ends, some
\* step is always possible.
C8_AlwaysAnEnvelope ==
    /\ pc # "done" => (response = <<>> /\ ENABLED Next)
    /\ pc = "done" =>
          /\ Len(response) = 1
          /\ IF last \in {"construct_raised", "session_raised"}
             THEN /\ response[1].statusCode = 500
                  /\ DOMAIN response[1].body = {"error"}
             ELSE /\ response[1].statusCode = 200
                  /\ DOMAIN response[1].body = SummaryKeys
                  /\ response[1].body.status = "success"
                  /\ response[1].body.accounts_monitored
                         = Cardinality(DOMAIN aggregated_data)
                  /\ response[1].body.total_instances
                         = SumInstanceCounts(aggregated_data, DOMAIN aggregated_data)
                  /\ response[1].body.total_alerts = Len(alerts)

\* Witness of C8: an exception escaped run after an account had been
\* processed, and the handler answered 500.
C8_Witness ==
    /\ pc = "done"
    /\ last = "session_raised"
    /\ collectCalls >= 1
    /\ response[1].statusCode = 500

\* C9: the telemetry write is attempted exactly once in a run whose loop
\* completes and never before the last account has been processed; whether
\* it succeeds or raises, run returns status "success" with the counts that
\* were handed to the write.
C9_OneWriteAfterLoop ==
    /\ Len(puts) <= 1
    /\ Len(puts) = 1 <=> RunCompleted
    /\ Len(puts) = 1 =>
          /\ visited = Len(accounts)
          /\ idx > Len(accounts)
          /\ pending = <<>>
          /\ puts[1] = MetricData(aggregated_data, alerts)
    /\ pc = "stored" => ENABLED Return
    /\ (pc = "done" /\ last \in {"put_ok", "put_raised"}) =>
          /\ response[1].statusCode = 200
          /\ response[1].body.status = "success"
          /\ response[1].body.total_instances = puts[1].TotalInstancesMonitored
          /\ response[1].body.total_alerts = puts[1].TotalAlertsGenerated
          /\ response[1].body.accounts_monitored = puts[1].AccountsMonitored

\* Witness of C9: the write raised after two accounts, and the handler
\* answered 200.
C9_Witness ==
    /\ pc = "done"
    /\ last = "put_raised"
    /\ Len(accounts) = 2
    /\ collectCalls = 2
    /\ response[1].statusCode = 200

SentAlerts == [i \in 1..Len(sent) |-> sent[i].alert]

\* C10: the alerts are handed to send_alert once each, in the order they
\* were generated, all of an account's before the next account begins; a
\* failed send stops no later one; total_alerts counts every alert whatever
\* its delivery.
C10_EveryAlertSentOnceInOrder ==
    /\ alerts = SentAlerts \o pending
    /\ pc = "send" <=> pending # <<>>
    /\ pc = "send" => ENABLED SendAlert
    /\ (pc = "done" /\ last \in {"put_ok", "put_raised"}) =>
          response[1].body.total_alerts = Len(sent)

\* Witness of C10: a send of the first account failed, every later alert was
\* still sent, one of them for a later account, and all are counted.
C10_Witness ==
    /\ pc = "done"
    /\ response[1].statusCode = 200
    /\ Len(sent) >= 3
    /\ ~sent[1].ret
    /\ sent[Len(sent)].alert.account_id # sent[1].alert.account_id
    /\ response[1].body.total_alerts = Len(sent)

====
